---------------------------- MODULE Spec2Model ----------------------------
(***************************************************************************)
(* A model of fusevault: a read-only FUSE view of a Vault server.          *)
(* Paths are sequences of one-character strings, so that filepath.Join,    *)
(* strings.HasSuffix and strings.TrimSuffix are computed, not assumed.     *)
(* File content is a TLA+ string built by Marshal the way json.Marshal     *)
(* renders a map: keys sorted, no white space.                             *)
(***************************************************************************)
EXTENDS Integers, Sequences, FiniteSets, TLC

(***************************************************************************)
(* Bounds of the model.                                                    *)
(***************************************************************************)
\* the number of changes made to the Vault server behind the filesystem
MaxRemoteOps == 2

(***************************************************************************)
(* Strings and paths.                                                      *)
(***************************************************************************)
Sep == "/"

MetadataStr == <<"m", "e", "t", "a", "d", "a", "t", "a">>

DataStr == <<"d", "a", "t", "a">>

\* strings.HasSuffix(s, "/")
HasSuffixSep(s) == Len(s) > 0 /\ s[Len(s)] = Sep

\* strings.TrimSuffix(s, "/")
TrimSuffixSep(s) == IF HasSuffixSep(s) THEN SubSeq(s, 1, Len(s) - 1) ELSE s

\* filepath.Clean on a relative path without dot segments: runs of
\* separators collapse to one and a trailing separator is dropped
RECURSIVE CleanFrom(_, _, _)
CleanFrom(p, i, out) ==
    IF i > Len(p) THEN TrimSuffixSep(out)
    ELSE IF p[i] = Sep /\ (out = <<>> \/ out[Len(out)] = Sep)
         THEN CleanFrom(p, i + 1, IF i = 1 THEN <<Sep>> ELSE out)
         ELSE CleanFrom(p, i + 1, Append(out, p[i]))

Clean(p) == CleanFrom(p, 1, <<>>)

\* filepath.Join(a, b): empty elements are ignored, the rest is joined with
\* the separator and cleaned; all elements empty gives the empty string
Join(a, b) ==
    IF a = <<>> /\ b = <<>> THEN <<>>
    ELSE IF a = <<>> THEN Clean(b)
    ELSE IF b = <<>> THEN Clean(a)
    ELSE Clean(a \o <<Sep>> \o b)

\* the segments of a path, split at the separators
RECURSIVE SplitFrom(_, _, _, _)
SplitFrom(p, i, cur, out) ==
    IF i > Len(p) THEN (IF cur = <<>> THEN out ELSE Append(out, cur))
    ELSE IF p[i] = Sep
         THEN SplitFrom(p, i + 1, <<>>, IF cur = <<>> THEN out ELSE Append(out, cur))
         ELSE SplitFrom(p, i + 1, Append(cur, p[i]), out)

Split(p) == SplitFrom(p, 1, <<>>, <<>>)

IsPrefix(s, t) == Len(s) <= Len(t) /\ SubSeq(t, 1, Len(s)) = s

(***************************************************************************)
(* JSON values: what a Go map[string]interface{} holds.                    *)
(***************************************************************************)
JNull == [t |-> "null"]

JNum(n) == [t |-> "num", n |-> n]

JObj(m) == [t |-> "obj", m |-> m]

\* a map lookup in Go: the nil interface for a missing key
MapGet(m, k) == IF k \in DOMAIN m THEN m[k] ELSE JNull

\* the byte order of the keys that occur, as sort.Strings orders them
KeyOrder == <<"a", "b", "data", "metadata", "version">>

KeyRank(k) == CHOOSE i \in 1..Len(KeyOrder) : KeyOrder[i] = k

Digits == <<"0", "1", "2", "3", "4", "5", "6", "7", "8", "9">>

RECURSIVE NumText(_)
NumText(n) == IF n < 10 THEN Digits[n + 1] ELSE NumText(n \div 10) \o Digits[(n % 10) + 1]

\* a variant that writes the keys in descending order
RECURSIVE DescendingKeys(_)
DescendingKeys(S) ==
    IF S = {} THEN <<>>
    ELSE LET k == CHOOSE x \in S : \A y \in S : KeyRank(x) >= KeyRank(y)
         IN <<k>> \o DescendingKeys(S \ {k})

\* the keys of a map in the order json.Marshal writes them: sorted
RECURSIVE SortedKeys(_)
SortedKeys(S) ==
    IF S = {} THEN <<>>
    ELSE LET k == CHOOSE x \in S : \A y \in S : KeyRank(x) <= KeyRank(y)
         IN <<k>> \o SortedKeys(S \ {k})

\* json.Marshal: an object is {"k":v,...} in key order, without white space
RECURSIVE Marshal(_)
RECURSIVE MarshalFields(_, _, _)
MarshalFields(m, keys, i) ==
    IF i > Len(keys) THEN ""
    ELSE (IF i > 1 THEN "," ELSE "") \o "\"" \o keys[i] \o "\":"
         \o Marshal(m[keys[i]]) \o MarshalFields(m, keys, i + 1)

Marshal(v) ==
    IF v.t = "null" THEN "null"
    ELSE IF v.t = "num" THEN NumText(v.n)
    ELSE "{" \o MarshalFields(v.m, SortedKeys(DOMAIN v.m), 1) \o "}"

(***************************************************************************)
(* The Vault server: mounts, and the secrets of the key/value mounts.      *)
(***************************************************************************)
\* api.MountOutput of the mounts a server may have: "k/" is a kv mount with
\* options version=1, "v/" one with version=2, "s/" is the system backend
MountUniverse ==
    (<<"k", Sep>> :> [Type |-> "kv", Options |-> ("version" :> "1")])
    @@ (<<"v", Sep>> :> [Type |-> "kv", Options |-> ("version" :> "2")])
    @@ (<<"s", Sep>> :> [Type |-> "system", Options |-> [o \in {} |-> ""]])

\* mount.Options["version"]: the empty string for a missing option
OptionGet(mount, k) == IF k \in DOMAIN mount.Options THEN mount.Options[k] ELSE ""

KvNames == {<<"k">>, <<"v">>}

\* the logical keys secrets are written at
KeyUniverse == {<<"a">>, <<"b">>, <<"a", Sep, "b">>}

\* the secrets written: maps from field name to a number
SecretVals == {("a" :> JNum(1)), (("b" :> JNum(2)) @@ ("a" :> JNum(3)))}

Absent == [st |-> "absent"]

Deleted == [st |-> "deleted"]

Present(v) == [st |-> "present", val |-> v]

EmptyStore == [m \in KvNames |-> [k \in KeyUniverse |-> Absent]]

RECURSIVE JoinSegs(_)
JoinSegs(segs) ==
    IF segs = <<>> THEN <<>>
    ELSE IF Len(segs) = 1 THEN segs[1]
    ELSE segs[1] \o <<Sep>> \o JoinSegs(Tail(segs))

NoRoute == [area |-> "none"]

\* the server's routing of a physical path: the mount it falls under, and
\* for a version 2 mount the data/ or metadata/ tree within it
Route(mounts, path) ==
    LET segs == Split(path) IN
    IF segs = <<>> \/ (segs[1] \o <<Sep>>) \notin DOMAIN mounts THEN NoRoute
    ELSE LET mount == mounts[segs[1] \o <<Sep>>]
             rest == Tail(segs)
         IN IF mount.Type # "kv" THEN NoRoute
            ELSE IF OptionGet(mount, "version") # "2"
                 THEN [area |-> "kv1", m |-> segs[1], key |-> JoinSegs(rest)]
            ELSE IF rest # <<>> /\ rest[1] = DataStr
                 THEN [area |-> "data", m |-> segs[1], key |-> JoinSegs(Tail(rest))]
            ELSE IF rest # <<>> /\ rest[1] = MetadataStr
                 THEN [area |-> "metadata", m |-> segs[1], key |-> JoinSegs(Tail(rest))]
            ELSE NoRoute

\* the names the server lists under a logical directory: the next segment
\* of every key below it, with a trailing separator when the key goes deeper
ChildNames(st, m, dir) ==
    LET d == Split(dir) IN
    { IF Len(Split(k)) > Len(d) + 1
         THEN Split(k)[Len(d) + 1] \o <<Sep>>
         ELSE Split(k)[Len(d) + 1] :
      k \in { k \in KeyUniverse : /\ st[m][k] # Absent
                                  /\ Len(Split(k)) > Len(d)
                                  /\ IsPrefix(d, Split(k)) } }

Perms(S) ==
    { s \in [1..Cardinality(S) -> S] : \A i, j \in 1..Cardinality(S) : i # j => s[i] # s[j] }

NilSecret == [nil |-> TRUE]

Secret(data) == [nil |-> FALSE, Data |-> data]

Response(sec, err) == [sec |-> sec, err |-> err]

\* vaultlog.List: the answers the client may give for a path.  A path with
\* nothing under it is answered with a nil secret and no error; the order
\* of the keys is the server's; any call may fail
ListResponses(st, mounts, path) ==
    LET r == Route(mounts, path)
        names == IF r.area \in {"kv1", "metadata"} THEN ChildNames(st, r.m, r.key) ELSE {}
    IN {Response(NilSecret, TRUE)}
       \cup (IF names = {} THEN {Response(NilSecret, FALSE)}
             ELSE {Response(Secret("keys" :> ss), FALSE) : ss \in Perms(names)})

\* the secret the server holds at a physical path, NilSecret when none.  A
\* version 2 mount wraps the value in an envelope with its metadata, and
\* answers for a deleted version with an envelope whose data is null
SecretAt(st, mounts, path) ==
    LET r == Route(mounts, path) IN
    IF r.area \notin {"kv1", "data"} \/ r.key \notin KeyUniverse THEN NilSecret
    ELSE LET e == st[r.m][r.key] IN
         IF e = Absent THEN NilSecret
         ELSE IF r.area = "kv1" THEN Secret(e.val)
         ELSE Secret(("data" :> (IF e = Deleted THEN JNull ELSE JObj(e.val)))
                     @@ ("metadata" :> JObj("version" :> JNum(1))))

\* vaultlog.Read: the answers the client may give for a path.  Nothing at
\* the path is answered with a nil secret, with or without an error
ReadResponses(st, mounts, path) ==
    LET sec == SecretAt(st, mounts, path) IN
    {Response(NilSecret, TRUE), Response(sec, FALSE)}

\* the server's handling of a write of data at a physical path
StoreWrite(st, mounts, path, data) ==
    LET r == Route(mounts, path) IN
    IF r.area = "kv1" /\ r.key \in KeyUniverse
    THEN [st EXCEPT ![r.m][r.key] = Present(data)]
    ELSE IF r.area = "data" /\ r.key \in KeyUniverse /\ MapGet(data, "data").t = "obj"
    THEN [st EXCEPT ![r.m][r.key] = Present(MapGet(data, "data").m)]
    ELSE st

\* the server's handling of a delete at a physical path: on a version 2
\* mount data/ marks the version deleted and metadata/ removes the key
StoreDelete(st, mounts, path) ==
    LET r == Route(mounts, path) IN
    IF r.area = "none" \/ r.key \notin KeyUniverse \/ st[r.m][r.key] = Absent THEN st
    ELSE IF r.area = "data" THEN [st EXCEPT ![r.m][r.key] = Deleted]
    ELSE [st EXCEPT ![r.m][r.key] = Absent]

(***************************************************************************)
(* The filesystem: its nodes and the pure parts of its handlers.           *)
(***************************************************************************)
VARIABLES
    remoteMounts,   \* the server's mount table: mount point -> api.MountOutput
    store,          \* the server's secrets: mount name -> key -> entry
    written,        \* per mount and key, the last value written and the one before
    nops,           \* the number of changes made to the server
    session,        \* "start", "serving" once FS.Root has returned a node, "failed"
    root,           \* the RootDir node FS.Root returned
    cur,            \* the node the next request is addressed to
    req,            \* the request in progress or last served, with its outcome
    calls           \* the client calls the request has issued, in order

vars == <<remoteMounts, store, written, nops, session, root, cur, req, calls>>

NoNode == [kind |-> "none"]

RootDirNode(mounts) == [kind |-> "RootDir", mounts |-> mounts]

MountDirNode(mountpt, mount, adj) ==
    [kind |-> "MountDir", mountpt |-> mountpt, mount |-> mount, pathAdjustor |-> adj]

DirNode(d, path) == [kind |-> "Dir", MountDir |-> d, path |-> path]

newFile(content) == [kind |-> "File", content |-> content]

pathlist(adj, in) == IF adj = "kvv2PathAdjustor" THEN Join(MetadataStr, in) ELSE in

pathread(adj, in) == IF adj = "kvv2PathAdjustor" THEN Join(DataStr, in) ELSE in

\* the engine types with a constructor registered
nodeMakers == {"kv"}

makeKvNode(mountpt, mount) ==
    MountDirNode(mountpt, mount,
                 IF OptionGet(mount, "version") = "2" THEN "kvv2PathAdjustor"
                 ELSE "basePathAdjustor")

\* a call of the client, with the answer it got
Call(op, path, resp) == [op |-> op, path |-> path, resp |-> resp]

\* the outcomes of a request; startOps and readOps are the numbers of changes
\* the server had seen when the request began and when it last called it
Pending(r) == [r EXCEPT !.outcome = "pending"]

Failed(r, err) == [r EXCEPT !.outcome = "error", !.err = err]

Panicked(r) == [r EXCEPT !.outcome = "panic"]

Returned(r, node) == [r EXCEPT !.outcome = "node", !.node = node]

Request(op, on, name) ==
    [op |-> op, on |-> on, name |-> name, outcome |-> "pending", err |-> "",
     node |-> NoNode, ents |-> <<>>, ss |-> <<>>, startOps |-> 0, readOps |-> 0,
     flags |-> 0, keepCache |-> FALSE, mode |-> "", size |-> 0, off |-> 0, n |-> 0]

\* a request that calls the server, begun now
ServerRequest(op, on, name) ==
    [Request(op, on, name) EXCEPT !.startOps = nops, !.readOps = nops]

\* a variant that fails for a mount without a constructor
RootLookupStrict(d, name) ==
    LET r == Request("Lookup", d, name)
        mp == name \o <<Sep>>
    IN IF mp \notin DOMAIN d.mounts THEN Failed(r, "no such mount")
       ELSE IF d.mounts[mp].Type \notin nodeMakers THEN Failed(r, "unsupported")
       ELSE Returned(r, makeKvNode(name, d.mounts[mp]))

\* RootDir.Lookup
RootLookup(d, name) ==
    LET r == Request("Lookup", d, name)
        mp == name \o <<Sep>>
    IN IF mp \notin DOMAIN d.mounts THEN Failed(r, "no such mount")
       ELSE IF d.mounts[mp].Type \notin nodeMakers THEN Returned(r, newFile(""))
       ELSE Returned(r, makeKvNode(name, d.mounts[mp]))

Dirent(name, type) == [Name |-> name, Type |-> type]

\* a variant that keeps the trailing separator of the mount point
RootDirentsUntrimmed(order) == [i \in 1..Len(order) |-> Dirent(order[i], "DT_Dir")]

\* RootDir.ReadDirAll: one entry per mount, in the order the map is ranged over
RootDirents(order) == [i \in 1..Len(order) |-> Dirent(TrimSuffixSep(order[i]), "DT_Dir")]

\* list: the keys of a List answer
list(resp) ==
    IF resp.sec.nil \/ resp.err THEN [ss |-> <<>>, err |-> resp.err]
    ELSE IF "keys" \notin DOMAIN resp.sec.Data THEN [ss |-> <<>>, err |-> FALSE]
    ELSE [ss |-> resp.sec.Data["keys"], err |-> FALSE]

\* listDirents: one entry per key, a directory when the key ends with "/"
listDirents(resp) ==
    LET l == list(resp) IN
    IF l.err THEN [ents |-> <<>>, err |-> TRUE]
    ELSE [ents |-> [i \in 1..Len(l.ss) |->
                      IF HasSuffixSep(l.ss[i]) THEN Dirent(l.ss[i], "DT_Dir")
                      ELSE Dirent(l.ss[i], "DT_File")],
          err |-> FALSE]

\* the MountDir of a directory node, and its path below the mount
MountDirOf(n) == IF n.kind = "Dir" THEN n.MountDir ELSE n

RelPathOf(n) == IF n.kind = "Dir" THEN n.path ELSE <<>>

\* the path MountDir.ReadDirAll lists
MountDirListPath(d) == Join(d.mountpt, pathlist(d.pathAdjustor, <<>>))

\* the path Dir.ReadDirAll lists
DirListPath(n) == pathlist(n.MountDir.pathAdjustor, Join(n.MountDir.mountpt, n.path))

\* the path lookup lists
LookupListPath(d, relpath) == Join(d.mountpt, pathlist(d.pathAdjustor, relpath))

\* the path lookup reads
LookupReadPath(d, childpath) == Join(d.mountpt, pathread(d.pathAdjustor, childpath))

\* a variant in which the last matching entry decides
LastMatch(ss, name) ==
    LET hits == { i \in 1..Len(ss) : ss[i] = name \o <<Sep>> \/ ss[i] = name }
    IN IF hits = {} THEN 0 ELSE CHOOSE i \in hits : \A j \in hits : i >= j

\* lookup's loop over the listing: the first entry that is name or name/
FirstMatch(ss, name) ==
    LET hits == { i \in 1..Len(ss) : ss[i] = name \o <<Sep>> \/ ss[i] = name }
    IN IF hits = {} THEN 0 ELSE CHOOSE i \in hits : \A j \in hits : i <= j

\* a variant that renders the whole answer of a version 2 mount
LookupFileWholeSecret(r, d, resp) ==
    IF resp.err THEN Failed(r, "Read error")
    ELSE IF resp.sec.nil THEN Panicked(r)
    ELSE Returned(r, newFile(Marshal(JObj(resp.sec.Data))))

\* lookup after the Read: the file made of the answer
LookupFile(r, d, resp) ==
    IF resp.err THEN Failed(r, "Read error")
    ELSE IF resp.sec.nil THEN Panicked(r)
    ELSE IF d.mount.Type = "kv" /\ OptionGet(d.mount, "version") = "2"
         THEN (IF MapGet(resp.sec.Data, "data").t # "obj" THEN Panicked(r)
               ELSE Returned(r, newFile(Marshal(MapGet(resp.sec.Data, "data")))))
         ELSE Returned(r, newFile(Marshal(JObj(resp.sec.Data))))

\* a variant that tests the write-only bit alone
IsReadOnlyLax(flags) == flags % 2 = 0

\* req.Flags.IsReadOnly(): the access mode is the low two bits of the flags
IsReadOnly(flags) == flags % 4 = 0

(***************************************************************************)
(* The requests of the filesystem.  A request is served in one step, except*)
(* a lookup below a mount, which lists and then, in a second step, reads.  *)
(***************************************************************************)
\* the names looked up below the root and below a mount
RootNames == {<<"k">>, <<"v">>, <<"s">>, <<"x">>}

Names == {<<"a">>, <<"b">>}

\* the flags of an open request: O_RDONLY, O_WRONLY, O_RDWR, O_RDONLY|O_APPEND
OpenFlags == {0, 1, 2, 1024}

\* the offsets and sizes of a read request
ReadOffsets == {0, 8}

ReadSizes == {4, 4096}

Idle == session = "serving" /\ req.outcome # "pending"

Server == <<remoteMounts, store, written, nops>>

\* FS.Root
Root ==
    /\ session = "start"
    /\ \/ /\ root' = RootDirNode(remoteMounts)
          /\ calls' = <<Call("ListMounts", <<>>, Response(NilSecret, FALSE))>>
          /\ cur' = root'
          /\ session' = "serving"
          /\ req' = Returned(Request("Root", NoNode, <<>>), root')
       \/ /\ session' = "failed"
          /\ calls' = <<Call("ListMounts", <<>>, Response(NilSecret, TRUE))>>
          /\ req' = Failed(Request("Root", NoNode, <<>>), "ListMounts error")
          /\ UNCHANGED <<root, cur>>
    /\ UNCHANGED Server

\* RootDir.Attr, MountDir.Attr (a Dir has the Attr of its MountDir), File.Attr
Attr ==
    /\ Idle
    /\ calls' = <<>>
    /\ req' = IF cur.kind = "File"
              THEN [Request("Attr", cur, <<>>) EXCEPT
                      !.outcome = "attr", !.mode = "0444", !.size = Len(cur.content)]
              ELSE [Request("Attr", cur, <<>>) EXCEPT
                      !.outcome = "attr", !.mode = "dir0555"]
    /\ UNCHANGED <<Server, session, root, cur>>

\* RootDir.ReadDirAll: the range over the map visits the mounts in any order
RootReadDirAll ==
    /\ Idle
    /\ cur.kind = "RootDir"
    /\ calls' = <<>>
    /\ \E order \in Perms(DOMAIN cur.mounts) :
          req' = [ServerRequest("ReadDirAll", cur, <<>>) EXCEPT
                    !.outcome = "entries", !.ents = RootDirents(order)]
    /\ UNCHANGED <<Server, session, root, cur>>

\* RootDir.Lookup
RootDirLookup ==
    /\ Idle
    /\ cur.kind = "RootDir"
    /\ calls' = <<>>
    /\ \E name \in RootNames : req' = RootLookup(cur, name)
    /\ UNCHANGED <<Server, session, root, cur>>

\* the request a ReadDirAll of a mount or directory ends as
Listed(r, resp) ==
    LET l == listDirents(resp) IN
    IF l.err THEN Failed(r, "List error")
    ELSE [r EXCEPT !.outcome = "entries", !.ents = l.ents]

\* MountDir.ReadDirAll
MountDirReadDirAll ==
    /\ Idle
    /\ cur.kind = "MountDir"
    /\ \E resp \in ListResponses(store, remoteMounts, MountDirListPath(cur)) :
          /\ calls' = <<Call("List", MountDirListPath(cur), resp)>>
          /\ req' = Listed(ServerRequest("ReadDirAll", cur, <<>>), resp)
    /\ UNCHANGED <<Server, session, root, cur>>

\* Dir.ReadDirAll
DirReadDirAll ==
    /\ Idle
    /\ cur.kind = "Dir"
    /\ \E resp \in ListResponses(store, remoteMounts, DirListPath(cur)) :
          /\ calls' = <<Call("List", DirListPath(cur), resp)>>
          /\ req' = Listed(ServerRequest("ReadDirAll", cur, <<>>), resp)
    /\ UNCHANGED <<Server, session, root, cur>>

\* a variant that goes on to the Read for a directory as well
LookupListedAlwaysReads(r, d, relpath, resp) ==
    LET l == list(resp)
        hit == FirstMatch(l.ss, r.name)
    IN IF l.err THEN Failed(r, "List error")
       ELSE IF hit = 0 THEN Failed([r EXCEPT !.ss = l.ss], "not found")
       ELSE Pending([r EXCEPT !.ss = l.ss])

\* lookup up to its Read: the parent is listed and the listing searched
LookupListed(r, d, relpath, resp) ==
    LET l == list(resp)
        hit == FirstMatch(l.ss, r.name)
    IN IF l.err THEN Failed(r, "List error")
       ELSE IF hit = 0 THEN Failed([r EXCEPT !.ss = l.ss], "not found")
       ELSE IF l.ss[hit] = r.name \o <<Sep>>
            THEN Returned([r EXCEPT !.ss = l.ss], DirNode(d, Join(relpath, r.name)))
       ELSE Pending([r EXCEPT !.ss = l.ss])

\* MountDir.Lookup, Dir.Lookup: lookup, to the point where it reads
LookupList ==
    /\ Idle
    /\ cur.kind \in {"MountDir", "Dir"}
    /\ LET d == MountDirOf(cur)
           relpath == RelPathOf(cur)
       IN \E name \in Names :
          \E resp \in ListResponses(store, remoteMounts, LookupListPath(d, relpath)) :
             /\ calls' = <<Call("List", LookupListPath(d, relpath), resp)>>
             /\ req' = LookupListed(ServerRequest("Lookup", cur, name), d, relpath, resp)
    /\ UNCHANGED <<Server, session, root, cur>>

\* lookup from its Read on
LookupRead ==
    /\ session = "serving"
    /\ req.op = "Lookup" /\ req.outcome = "pending"
    /\ LET d == MountDirOf(req.on)
           childpath == Join(RelPathOf(req.on), req.name)
       IN \E resp \in ReadResponses(store, remoteMounts, LookupReadPath(d, childpath)) :
             /\ calls' = Append(calls, Call("Read", LookupReadPath(d, childpath), resp))
             /\ req' = LookupFile([req EXCEPT !.readOps = nops], d, resp)
    /\ UNCHANGED <<Server, session, root, cur>>

\* File.Open
Open(r) ==
    IF ~IsReadOnly(r.flags) THEN Failed(r, "EACCES")
    ELSE [r EXCEPT !.outcome = "handle", !.node = r.on, !.keepCache = TRUE]

FileOpen ==
    /\ Idle
    /\ cur.kind = "File"
    /\ calls' = <<>>
    /\ \E flags \in OpenFlags :
          req' = Open([Request("Open", cur, <<>>) EXCEPT !.flags = flags])
    /\ UNCHANGED <<Server, session, root, cur>>

\* fuseutil.HandleRead: the bytes from the offset on, at most size of them
HandleRead(len, off, size) ==
    IF off >= len THEN 0 ELSE IF len - off > size THEN size ELSE len - off

\* File.Read
FileRead ==
    /\ Idle
    /\ cur.kind = "File"
    /\ calls' = <<>>
    /\ \E off \in ReadOffsets, size \in ReadSizes :
          req' = [Request("Read", cur, <<>>) EXCEPT
                    !.outcome = "data", !.off = off, !.size = size,
                    !.n = HandleRead(Len(cur.content), off, size)]
    /\ UNCHANGED <<Server, session, root, cur>>

\* the kernel walks into the node a lookup returned
Walk ==
    /\ Idle
    /\ req.op = "Lookup" /\ req.outcome = "node"
    /\ cur = req.on
    /\ cur' = req.node
    /\ UNCHANGED <<Server, session, root, req, calls>>

\* the kernel starts the next path at the root
Rewind ==
    /\ Idle
    /\ cur # root
    /\ cur' = root
    /\ UNCHANGED <<Server, session, root, req, calls>>

(***************************************************************************)
(* The changes made to the server by its other clients.                    *)
(***************************************************************************)
IsV2(m) == OptionGet(remoteMounts[m \o <<Sep>>], "version") = "2"

\* a secret is written at a key of a mounted kv mount, as vwrite does in the
\* tests: under data/ and wrapped in {"data": ...} on a version 2 mount
VaultWrite ==
    /\ nops < MaxRemoteOps
    /\ \E m \in KvNames, k \in KeyUniverse, v \in SecretVals :
          /\ (m \o <<Sep>>) \in DOMAIN remoteMounts
          /\ store' = IF IsV2(m)
                      THEN StoreWrite(store, remoteMounts, Join(m, Join(DataStr, k)),
                                      "data" :> JObj(v))
                      ELSE StoreWrite(store, remoteMounts, Join(m, k), v)
          /\ written' = [written EXCEPT ![m][k] = [last |-> JObj(v), prev |-> @.last]]
    /\ nops' = nops + 1
    /\ UNCHANGED <<remoteMounts, session, root, cur, req, calls>>

\* a secret is deleted: on a version 2 mount either its data (the key stays
\* listed) or its metadata (the key goes)
VaultDelete ==
    /\ nops < MaxRemoteOps
    /\ \E m \in KvNames, k \in KeyUniverse, tree \in {DataStr, MetadataStr} :
          /\ (m \o <<Sep>>) \in DOMAIN remoteMounts
          /\ store[m][k] # Absent
          /\ store' = IF IsV2(m)
                      THEN StoreDelete(store, remoteMounts, Join(m, Join(tree, k)))
                      ELSE StoreDelete(store, remoteMounts, Join(m, k))
          /\ store' # store
    /\ nops' = nops + 1
    /\ UNCHANGED <<remoteMounts, written, session, root, cur, req, calls>>

\* a mount is added
SysMount ==
    /\ nops < MaxRemoteOps
    /\ \E mp \in DOMAIN MountUniverse \ DOMAIN remoteMounts :
          remoteMounts' = [x \in DOMAIN remoteMounts \cup {mp} |-> MountUniverse[x]]
    /\ nops' = nops + 1
    /\ UNCHANGED <<store, written, session, root, cur, req, calls>>

\* a mount is removed, and its secrets with it
SysUnmount ==
    /\ nops < MaxRemoteOps
    /\ \E mp \in DOMAIN remoteMounts :
          /\ remoteMounts' = [x \in DOMAIN remoteMounts \ {mp} |-> MountUniverse[x]]
          /\ store' = [m \in KvNames |->
                         IF m = TrimSuffixSep(mp) THEN EmptyStore[m] ELSE store[m]]
    /\ nops' = nops + 1
    /\ UNCHANGED <<written, session, root, cur, req, calls>>

\* the server has the three mounts, as after the setup of the tests, and
\* holds no secret yet
Init ==
    /\ remoteMounts = MountUniverse
    /\ store = EmptyStore
    /\ written = [m \in KvNames |-> [k \in KeyUniverse |-> [last |-> JNull, prev |-> JNull]]]
    /\ nops = 0
    /\ session = "start"
    /\ root = NoNode
    /\ cur = NoNode
    /\ req = [Request("none", NoNode, <<>>) EXCEPT !.outcome = "none"]
    /\ calls = <<>>

Next ==
    \/ Root
    \/ Attr
    \/ RootReadDirAll
    \/ RootDirLookup
    \/ MountDirReadDirAll
    \/ DirReadDirAll
    \/ LookupList
    \/ LookupRead
    \/ FileOpen
    \/ FileRead
    \/ Walk
    \/ Rewind
    \/ VaultWrite
    \/ VaultDelete
    \/ SysMount
    \/ SysUnmount

Spec == Init /\ [][Next]_vars

(***************************************************************************)
(* What the properties below speak of: the request, the mount it is in,    *)
(* the physical paths and the JSON texts, written out rather than computed *)
(* by the operators of the model.                                          *)
(***************************************************************************)
Range(f) == { f[i] : i \in DOMAIN f }

OnMount == req.on.kind \in {"MountDir", "Dir"}

ReqMount == MountDirOf(req.on)

ReqRel == RelPathOf(req.on)

ReqV2 == ReqMount.mount = [Type |-> "kv", Options |-> ("version" :> "2")]

ReqChild == IF ReqRel = <<>> THEN req.name ELSE ReqRel \o <<"/">> \o req.name

AsDir == req.name \o <<"/">>

\* <mount>[/metadata][/<relative path>]
PhysList ==
    ReqMount.mountpt \o (IF ReqV2 THEN <<"/">> \o MetadataStr ELSE <<>>)
                     \o (IF ReqRel = <<>> THEN <<>> ELSE <<"/">> \o ReqRel)

\* <mount>[/data]/<child path>
PhysRead ==
    ReqMount.mountpt \o (IF ReqV2 THEN <<"/">> \o DataStr ELSE <<>>) \o <<"/">> \o ReqChild

\* the sorted-key JSON text of the secrets
ExpectedText ==
    (JObj("a" :> JNum(1)) :> "{\"a\":1}")
    @@ (JObj(("a" :> JNum(3)) @@ ("b" :> JNum(2))) :> "{\"a\":3,\"b\":2}")

\* the server's entry for the leaf the lookup is about
ReqEntry ==
    IF ReqChild \in KeyUniverse /\ (ReqMount.mountpt \o <<"/">>) \in DOMAIN remoteMounts
    THEN store[ReqMount.mountpt][ReqChild] ELSE Absent

ReqWritten ==
    IF ReqChild \in KeyUniverse THEN written[ReqMount.mountpt][ReqChild]
    ELSE [last |-> JNull, prev |-> JNull]

NoCallFailed == \A i \in DOMAIN calls : ~calls[i].resp.err

\* the server has not changed since the request began
Unchanged == req.startOps = nops /\ req.readOps = nops

IsFile == req.outcome = "node" /\ req.node.kind = "File"

IsDir == req.outcome = "node" /\ req.node.kind \in {"MountDir", "Dir"}

Where(ss, x) == CHOOSE i \in DOMAIN ss : ss[i] = x

(***************************************************************************)
(* C1: in a version 2 kv mount, a value written as {"data": v} at          *)
(* <mount>/data/<k> is listed by the mount root as k, with no data or      *)
(* metadata entry, and lookup of k lists <mount>/metadata, reads           *)
(* <mount>/data/<k> and returns a file whose content is the sorted-key     *)
(* JSON text of v alone.                                                   *)
(***************************************************************************)
C1_KVv2WriteVisible ==
    /\ (req.op = "ReadDirAll" /\ req.on.kind = "MountDir" /\ ReqV2
        /\ req.outcome = "entries" /\ req.readOps = nops)
       => /\ \A k \in Names :
               (/\ (req.on.mountpt \o <<"/">>) \in DOMAIN remoteMounts
                /\ written[req.on.mountpt][k].last # JNull
                /\ store[req.on.mountpt][k] = Present(written[req.on.mountpt][k].last.m))
               => [Name |-> k, Type |-> "DT_File"] \in Range(req.ents)
          /\ \A e \in Range(req.ents) :
               ~IsPrefix(DataStr, e.Name) /\ ~IsPrefix(MetadataStr, e.Name)
    /\ (req.op = "Lookup" /\ req.on.kind = "MountDir" /\ ReqV2 /\ IsFile)
       => /\ Len(calls) = 2
          /\ calls[1].op = "List" /\ calls[1].path = req.on.mountpt \o <<"/">> \o MetadataStr
          /\ calls[2].op = "Read"
          /\ calls[2].path = req.on.mountpt \o <<"/">> \o DataStr \o <<"/">> \o req.name
          /\ req.readOps = nops
             => /\ ReqWritten.last # JNull
                /\ req.node.content = ExpectedText[ReqWritten.last]
    /\ (req.op = "Lookup" /\ req.on.kind = "MountDir" /\ ReqV2 /\ Unchanged
        /\ req.outcome # "pending" /\ NoCallFailed
        /\ ReqEntry.st = "present" /\ AsDir \notin Range(req.ss))
       => IsFile

C1_Witness ==
    /\ req.op = "Lookup" /\ req.on.kind = "MountDir" /\ req.on.mountpt = <<"v">>
    /\ req.name = <<"b">> /\ Unchanged
    /\ written[<<"v">>][<<"b">>].last = JObj(("a" :> JNum(3)) @@ ("b" :> JNum(2)))
    /\ IsFile /\ req.node.content = "{\"a\":3,\"b\":2}"
    /\ calls[2].path = <<"v", "/", "d", "a", "t", "a", "/", "b">>

(***************************************************************************)
(* C2: every ReadDirAll of a mount root or of a directory below it issues  *)
(* one List, on join(mount name, listPath(relative path)), the path lookup *)
(* lists for that directory: <mount>/metadata/<p> in a version 2 mount.    *)
(***************************************************************************)
C2_EnumerateListsWhereResolveLists ==
    (req.op = "ReadDirAll" /\ OnMount)
    => /\ Len(calls) = 1 /\ calls[1].op = "List"
       /\ calls[1].path = PhysList
       /\ calls[1].path = LookupListPath(ReqMount, ReqRel)

(***************************************************************************)
(* C3, as claimed: whenever name/ is anywhere in the parent's listing,     *)
(* lookup returns the directory node for join(relative path, name) with    *)
(* the same mount and adjustor and issues no Read, whatever the order of   *)
(* the listing and also when name itself is listed.                        *)
(***************************************************************************)
C3_DirectoryAlwaysWins ==
    (req.op = "Lookup" /\ OnMount /\ ~calls[1].resp.err /\ AsDir \in Range(req.ss))
    => /\ req.outcome = "node"
       /\ req.node = [kind |-> "Dir", MountDir |-> ReqMount, path |-> ReqChild]
       /\ Len(calls) = 1

(***************************************************************************)
(* C3, amended: whenever name/ is in the parent's listing and name itself  *)
(* is not listed before it, lookup returns the directory node for          *)
(* join(relative path, name) with the same mount and adjustor and issues   *)
(* no Read; when name is listed before name/, lookup goes on to the Read   *)
(* and returns no directory: the entry listed first decides.               *)
(***************************************************************************)
C3_FirstListedWins ==
    (req.op = "Lookup" /\ OnMount /\ ~calls[1].resp.err /\ AsDir \in Range(req.ss))
    => IF req.name \in Range(req.ss) /\ Where(req.ss, req.name) < Where(req.ss, AsDir)
       THEN ~IsDir /\ (req.outcome # "pending" => Len(calls) = 2)
       ELSE /\ req.outcome = "node"
            /\ req.node = [kind |-> "Dir", MountDir |-> ReqMount, path |-> ReqChild]
            /\ Len(calls) = 1

C3_Witness ==
    /\ req.op = "Lookup" /\ req.on.kind = "MountDir"
    /\ req.ss = << <<"a", "/">>, <<"a">> >> /\ req.name = <<"a">>
    /\ req.node = [kind |-> "Dir", MountDir |-> req.on, path |-> <<"a">>]
    /\ Len(calls) = 1

(***************************************************************************)
(* C4: a lookup of a leaf returns a file whose content is the sorted-key   *)
(* JSON text of the value most recently written there when lookup read it, *)
(* never of the value it replaced; the server's changes seen by the Read   *)
(* include all those made before the lookup began.                         *)
(***************************************************************************)
C4_ReadsLatestValue ==
    (req.op = "Lookup" /\ OnMount /\ IsFile)
    => /\ req.startOps <= req.readOps
       /\ req.readOps = nops
          => /\ ReqWritten.last # JNull
             /\ req.node.content = ExpectedText[ReqWritten.last]
             /\ (ReqWritten.prev # JNull /\ ReqWritten.prev # ReqWritten.last)
                => req.node.content # ExpectedText[ReqWritten.prev]

C4_Witness ==
    /\ req.op = "Lookup" /\ req.on.kind = "MountDir" /\ req.on.mountpt = <<"k">>
    /\ req.name = <<"a">> /\ Unchanged /\ nops = 2
    /\ ReqWritten = [last |-> JObj("a" :> JNum(1)),
                     prev |-> JObj(("a" :> JNum(3)) @@ ("b" :> JNum(2)))]
    /\ IsFile /\ req.node.content = "{\"a\":1}"

C6_RootEntriesAreTheSnapshot ==
    /\ [](session = "serving"
          => /\ req.on.kind = "RootDir" => (req.on = root /\ calls = <<>>)
             /\ (req.op = "ReadDirAll" /\ req.on.kind = "RootDir")
                => /\ req.outcome = "entries"
                   /\ Len(req.ents) = Cardinality(DOMAIN root.mounts)
                   /\ { e.Name : e \in Range(req.ents) }
                        = { SubSeq(mp, 1, Len(mp) - 1) : mp \in DOMAIN root.mounts }
                   /\ \A e \in Range(req.ents) : e.Type = "DT_Dir")
    /\ [][/\ (session = "start" /\ session' = "serving") => root'.mounts = remoteMounts
          /\ session = "serving"
             => /\ root' = root
                /\ calls' # calls => \A i \in DOMAIN calls' : calls'[i].op # "ListMounts"]_vars

C6_Witness ==
    /\ session = "serving"
    /\ req.op = "ReadDirAll" /\ req.on.kind = "RootDir" /\ req.startOps = nops
    /\ DOMAIN remoteMounts = {<<"k", "/">>}
    /\ Len(req.ents) = 3

(***************************************************************************)
(* C7: an open whose access mode is not read-only fails with EACCES and    *)
(* returns no handle; the requests of the filesystem call the server with  *)
(* ListMounts, List and Read only, and no step of a request changes the    *)
(* server's mounts or secrets.                                             *)
(***************************************************************************)
C7_ReadOnly ==
    /\ []((req.op = "Open" /\ req.flags % 4 # 0)
            => (req.outcome = "error" /\ req.err = "EACCES" /\ req.node = NoNode))
    /\ [](\A i \in DOMAIN calls : calls[i].op \in {"ListMounts", "List", "Read"})
    /\ [][(req' # req \/ calls' # calls \/ cur' # cur \/ root' # root \/ session' # session)
          => (store' = store /\ remoteMounts' = remoteMounts)]_vars

C7_Witness ==
    /\ req.op = "Open" /\ req.flags = 2 /\ req.on.kind = "File"
    /\ req.on.content = "{\"a\":1}"
    /\ req.outcome = "error" /\ req.err = "EACCES"

(***************************************************************************)
(* C8: lookup in the root fails with "no such mount" when name/ is no key  *)
(* of the mount table; for a mount whose type has no constructor it        *)
(* returns a file of empty content and calls the server not at all; and    *)
(* nowhere else is a failure turned into a value: a request one of whose   *)
(* calls failed ends with an error and returns nothing, and an empty file  *)
(* comes from the root alone.                                              *)
(***************************************************************************)
C8_PlaceholderOnly ==
    /\ (req.op = "Lookup" /\ req.on.kind = "RootDir")
       => /\ calls = <<>>
          /\ (req.name \o <<"/">>) \notin DOMAIN req.on.mounts
             => (req.outcome = "error" /\ req.err = "no such mount" /\ req.node = NoNode)
          /\ ((req.name \o <<"/">>) \in DOMAIN req.on.mounts
              /\ req.on.mounts[req.name \o <<"/">>].Type # "kv")
             => req.node = [kind |-> "File", content |-> ""]
          /\ ((req.name \o <<"/">>) \in DOMAIN req.on.mounts
              /\ req.on.mounts[req.name \o <<"/">>].Type = "kv")
             => IsDir
    /\ ~NoCallFailed
       => (req.outcome = "error" /\ req.node = NoNode /\ req.ents = <<>>
           /\ req.err \in {"ListMounts error", "List error", "Read error"})
    /\ (req.op = "Lookup" /\ IsFile /\ req.node.content = "") => req.on.kind = "RootDir"
    /\ req.outcome = "error" => (req.node = NoNode /\ req.ents = <<>>)

C8_Witness ==
    /\ req.op = "Lookup" /\ req.on.kind = "RootDir" /\ req.name = <<"s">>
    /\ req.outcome = "node" /\ req.node = [kind |-> "File", content |-> ""]
    /\ calls = <<>>

(***************************************************************************)
(* C9: a lookup whose Read finds nothing at the path, the leaf having been *)
(* deleted since the List, or whose Read on a version 2 mount brings an    *)
(* answer without a nested data object, ends with an error for that        *)
(* request and returns no node.                                            *)
(***************************************************************************)
C9_MissingLeafIsAnError ==
    (/\ req.op = "Lookup" /\ OnMount /\ Len(calls) = 2
     /\ ~calls[2].resp.err
     /\ \/ calls[2].resp.sec.nil
        \/ ReqV2 /\ MapGet(calls[2].resp.sec.Data, "data").t # "obj")
    => (req.outcome = "error" /\ req.node = NoNode)

\* the entries ReadDirAll of a node returns from the server as it is now
EnumeratedNow(n) ==
    IF n.kind = "RootDir"
    THEN UNION { Range(RootDirents(order)) : order \in Perms(DOMAIN n.mounts) }
    ELSE LET path == IF n.kind = "MountDir" THEN MountDirListPath(n) ELSE DirListPath(n)
         IN UNION { Range(listDirents(resp).ents) :
                    resp \in { x \in ListResponses(store, remoteMounts, path) : ~x.err } }

(***************************************************************************)
(* C10: with the server unchanged and no name listed both with and without *)
(* a trailing separator, every entry that ReadDirAll of a node returns     *)
(* resolves, by its name without the separator, to a node of the entry's   *)
(* type: a directory for DT_Dir, a file for DT_File.                       *)
(***************************************************************************)
C10_EnumerateAndResolveAgree ==
    (/\ req.op = "Lookup" /\ req.outcome # "pending"
     /\ req.on.kind = "RootDir" \/ Unchanged
     /\ NoCallFailed)
    => \A e \in EnumeratedNow(req.on) :
          (/\ TrimSuffixSep(e.Name) = req.name
           /\ ~(req.name \in Range(req.ss) /\ AsDir \in Range(req.ss)))
          => /\ req.outcome = "node"
             /\ e.Type = "DT_Dir" => req.node.kind \in {"MountDir", "Dir"}
             /\ e.Type = "DT_File" => req.node.kind = "File"

=============================================================================
